---- MODULE Spec2Model ----
(***************************************************************************)
(* A* field placement (src/field_placement.py).                            *)
(*                                                                         *)
(* Numbers are kept exact as integers:                                     *)
(*   - risks and probabilities in hundredths (0.95 -> 95),                 *)
(*   - a probability x risk product, a heuristic value and an f score in   *)
(*     ten-thousandths (g = 1 fielder -> 10000),                           *)
(*   - coordinates in thousandths (the source rounds them to 3 decimals),  *)
(*   - squared distances in millionths.                                    *)
(***************************************************************************)
EXTENDS Integers, Sequences, FiniteSets, TLC

VARIABLES
    pc,             \* position in astar_field_placement / which machine runs
    delivery_type,  \* argument delivery_type
    n_fielders,     \* argument n_fielders
    shot_probs,     \* profile chosen at lines 89-91
    open_list,      \* the binary heap of (f, g, state) entries
    visited,        \* dict state -> g
    best_state,
    best_f,
    iterations,
    f,              \* f of the entry popped last (local f of the loop)
    pops,           \* number of heappop calls made in this run
    expansions,     \* how often each state went through lines 119-130
    completed_f,    \* lowest f among the target-size entries popped so far
    assigned,       \* the padded zone set of lines 137-143
    result,         \* the returned record
    run,            \* 1 = first call, 2 = the same call made again
    prev,           \* what the first call returned and found
    hPositions,     \* heuristic() called on its own: the position list
    hValue,         \*   its value on hPositions
    hPrev           \*   its value before the last position was appended

vars == << pc, delivery_type, n_fielders, shot_probs, open_list, visited,
           best_state, best_f, iterations, f, pops, expansions, completed_f,
           assigned, result, run, prev, hPositions, hValue, hPrev >>

searchVars == << open_list, visited, best_state, best_f, iterations, f, pops,
                 expansions, completed_f >>
hVars == << hPositions, hValue, hPrev >>

----------------------------------------------------------------------------
(* Bounds of the model *)

MaxFielders == 13      \* n_fielders ranges over -1 .. MaxFielders
MaxPositions == 3      \* longest position list given to heuristic() alone
MaxRot == 2            \* set iteration orders tried: rotations 0 .. MaxRot

----------------------------------------------------------------------------
(* Static data *)

ZONES ==
    << [name |-> "Fine Leg",        angle |-> << 150,  190>>, risk |-> 60],
       [name |-> "Square Leg",      angle |-> << 100,  150>>, risk |-> 80],
       [name |-> "Mid Wicket",      angle |-> <<  55,  100>>, risk |-> 90],
       [name |-> "Mid On",          angle |-> <<  25,   55>>, risk |-> 70],
       [name |-> "Mid Off",         angle |-> << -25,   25>>, risk |-> 70],
       [name |-> "Cover",           angle |-> << -55,  -25>>, risk |-> 95],
       [name |-> "Point",           angle |-> <<-100,  -55>>, risk |-> 85],
       [name |-> "Third Man",       angle |-> <<-190, -150>>, risk |-> 60],
       [name |-> "Long On",         angle |-> <<  10,   40>>, risk |-> 50],
       [name |-> "Long Off",        angle |-> << -40,  -10>>, risk |-> 50],
       [name |-> "Deep Mid Wicket", angle |-> <<  70,  110>>, risk |-> 55],
       [name |-> "Slip",            angle |-> <<-200, -160>>, risk |-> 75] >>

\* list(ZONES): the zone names in declaration order
all_zones == [i \in 1..Len(ZONES) |-> ZONES[i].name]

ZoneNames == {ZONES[i].name : i \in 1..Len(ZONES)}

ZoneIndex(z) == CHOOSE i \in 1..Len(ZONES) : ZONES[i].name = z

\* ZONES[z]["risk"]
Risk(z) == ZONES[ZoneIndex(z)].risk

P(z, p) == [zone |-> z, prob |-> p]

\* A profile is a dict in insertion order: a sequence of (zone, prob).
DELIVERY_ZONE_PROBS ==
    ("yorker"    :> << P("Fine Leg", 40), P("Square Leg", 30),
                       P("Mid Wicket", 20), P("Mid On", 10), P("Cover", 10) >>)
 @@ ("bouncer"   :> << P("Square Leg", 50), P("Point", 40),
                       P("Fine Leg", 30), P("Third Man", 30) >>)
 @@ ("full toss" :> << P("Mid On", 40), P("Mid Off", 40),
                       P("Cover", 50), P("Mid Wicket", 30) >>)
 @@ ("off spin"  :> << P("Cover", 60), P("Point", 50),
                       P("Mid Wicket", 40), P("Mid Off", 30) >>)
 @@ ("leg spin"  :> << P("Fine Leg", 50), P("Square Leg", 50),
                       P("Mid Wicket", 40), P("Cover", 30) >>)
 @@ ("outswing"  :> << P("Slip", 70), P("Cover", 50),
                       P("Point", 40), P("Third Man", 30) >>)

\* The delivery names of the table.
KnownDeliveries == DOMAIN DELIVERY_ZONE_PROBS

\* A delivery_type that is not a key of the table.
UnknownDelivery == "unknown-delivery-xyz"

Deliveries == KnownDeliveries \cup {UnknownDelivery}

KeySet(profile) == {profile[i].zone : i \in 1..Len(profile)}

\* shot_probs.get(z, default)
Get(profile, z, default) ==
    IF z \in KeySet(profile)
    THEN profile[CHOOSE i \in 1..Len(profile) : profile[i].zone = z].prob
    ELSE default

----------------------------------------------------------------------------
(* Geometry *)

\* angle_to_xy(mid_angle, 0.65), tabulated on twice the mid angle (the sum of
\* the two ends of the sector): round(cos * 0.65, 3), round(sin * 0.65, 3).
angle_to_xy(twice_angle) ==
    CASE twice_angle =  340 -> <<-640,  113>>
      [] twice_angle =  250 -> <<-373,  532>>
      [] twice_angle =  155 -> << 141,  635>>
      [] twice_angle =   80 -> << 498,  418>>
      [] twice_angle =    0 -> << 650,    0>>
      [] twice_angle =  -80 -> << 498, -418>>
      [] twice_angle = -155 -> << 141, -635>>
      [] twice_angle = -340 -> <<-640, -113>>
      [] twice_angle =   50 -> << 589,  275>>
      [] twice_angle =  -50 -> << 589, -275>>
      [] twice_angle =  180 -> <<   0,  650>>
      [] twice_angle = -360 -> <<-650,    0>>

zone_center(zone_name) ==
    LET z == ZONES[ZoneIndex(zone_name)]
    IN  angle_to_xy(z.angle[1] + z.angle[2])

\* math.dist(p, q) squared, in millionths
DistSq(p, q) == (p[1] - q[1]) * (p[1] - q[1]) + (p[2] - q[2]) * (p[2] - q[2])

\* the coverage radius 0.35, squared, in millionths
COVER_RADIUS_SQ == 122500

\* float('inf'): larger than every distance and every f score of the model
Inf == 1000000000

----------------------------------------------------------------------------
(* heuristic(fielder_positions, shot_probs), lines 52-76 *)

\* line 66: d < best_dist
CloserThan(d, best_dist) == d < best_dist

\* a fielder exactly on the radius covers as well
WithinRadius_Inclusive(best) == best.zone # "None" /\ best.dist <= COVER_RADIUS_SQ

\* line 69: best_zone and best_dist < 0.35
WithinRadius(best) == best.zone # "None" /\ best.dist < COVER_RADIUS_SQ

\* covered is replaced by the newest zone
AddCovered_Reset(covered, zone) == {zone}

\* line 70: covered.add(best_zone)
AddCovered(covered, zone) == covered \cup {zone}

\* lines 61-68: the inner loop over the profile, from index i on
RECURSIVE NearestZone(_, _, _, _)
NearestZone(pos, profile, i, best) ==
    IF i > Len(profile) THEN best
    ELSE LET d == DistSq(pos, zone_center(profile[i].zone))
         IN  NearestZone(pos, profile, i + 1,
                 IF CloserThan(d, best.dist)
                 THEN [zone |-> profile[i].zone, dist |-> d]
                 ELSE best)

\* lines 58-70: the loop over the positions, from index k on
RECURSIVE CoveredBy(_, _, _, _)
CoveredBy(positions, profile, k, covered) ==
    IF k > Len(positions) THEN covered
    ELSE LET best == NearestZone(positions[k], profile, 1,
                                 [zone |-> "None", dist |-> Inf])
         IN  CoveredBy(positions, profile, k + 1,
                 IF WithinRadius(best) THEN AddCovered(covered, best.zone)
                 ELSE covered)

\* lines 72-75: sum of prob x risk over the profile zones not in covered
RECURSIVE UncoveredRisk(_, _, _)
UncoveredRisk(profile, covered, i) ==
    IF i > Len(profile) THEN 0
    ELSE (IF profile[i].zone \in covered THEN 0
          ELSE Get(profile, profile[i].zone, 0) * Risk(profile[i].zone))
         + UncoveredRisk(profile, covered, i + 1)

\* round(x, 4) of a value held in ten-thousandths
Round4(x) == x

heuristic(fielder_positions, profile) ==
    Round4(UncoveredRisk(profile, CoveredBy(fielder_positions, profile, 1, {}), 1))

----------------------------------------------------------------------------
(* Profile selection, lines 89-91 *)

\* {z: ZONES[z]["risk"] for z in list(ZONES)[:6]}
FallbackProfile == [i \in 1..6 |-> P(all_zones[i], Risk(all_zones[i]))]

\* the table entry is used as found, without the fallback
SelectProfile_NoFallback(delivery) ==
    IF delivery \in DOMAIN DELIVERY_ZONE_PROBS
    THEN DELIVERY_ZONE_PROBS[delivery] ELSE << >>

SelectProfile(delivery) ==
    LET found == IF delivery \in DOMAIN DELIVERY_ZONE_PROBS
                 THEN DELIVERY_ZONE_PROBS[delivery] ELSE << >>
    IN  IF found = << >> THEN FallbackProfile ELSE found

----------------------------------------------------------------------------
(* heuristic() called on its own *)

\* positions offered to heuristic(): every zone centre, the pitch centre and
\* a point at exactly 0.35 from the centre of Mid Off
Points == {zone_center(z) : z \in ZoneNames} \cup {<<0, 0>>, <<1000, 0>>}

HInit ==
    /\ pc = "heuristic"
    /\ delivery_type \in Deliveries
    /\ shot_probs = SelectProfile(delivery_type)
    /\ n_fielders = 0
    /\ open_list = << >>
    /\ visited = << >>
    /\ best_state = {}
    /\ best_f = Inf
    /\ iterations = 0
    /\ f = 0
    /\ pops = 0
    /\ expansions = << >>
    /\ completed_f = Inf
    /\ assigned = {}
    /\ result = << >>
    /\ run = 1
    /\ prev = << >>
    /\ hPositions = << >>
    /\ hValue = heuristic(<< >>, shot_probs)
    /\ hPrev = hValue

\* one more position is supplied and heuristic() is evaluated again
AddPosition ==
    /\ pc = "heuristic"
    /\ Len(hPositions) < MaxPositions
    /\ \E p \in Points :
          /\ hPositions' = Append(hPositions, p)
          /\ hValue' = heuristic(hPositions', shot_probs)
    /\ hPrev' = hValue
    /\ UNCHANGED << pc, delivery_type, n_fielders, shot_probs, assigned,
                    result, run, prev >>
    /\ UNCHANGED searchVars

HNext == AddPosition

HSpec == HInit /\ [][HNext]_vars

----------------------------------------------------------------------------
(* The priority queue: heapq on (f, g, state) tuples *)

\* (f, g, state) < (f, g, state) as Python compares tuples: the first
\* position where the two differ decides; frozensets compare by proper subset.
ItemLt(a, b) ==
    IF a.f # b.f THEN a.f < b.f
    ELSE IF a.g # b.g THEN a.g < b.g
    ELSE IF a.state # b.state
         THEN a.state \subseteq b.state /\ a.state # b.state
         ELSE FALSE

\* heapq._siftdown(heap, startpos, pos) carrying newitem; positions from 0
RECURSIVE siftdown(_, _, _, _)
siftdown(heap, newitem, startpos, pos) ==
    LET parentpos == (pos - 1) \div 2
    IN  IF pos > startpos /\ ItemLt(newitem, heap[parentpos + 1])
        THEN siftdown([heap EXCEPT ![pos + 1] = heap[parentpos + 1]],
                      newitem, startpos, parentpos)
        ELSE [heap EXCEPT ![pos + 1] = newitem]

\* heapq._siftup(heap, pos): the smaller child moves up until a leaf is hit,
\* then newitem is sifted down from there
RECURSIVE siftup(_, _, _, _)
siftup(heap, newitem, startpos, pos) ==
    LET endpos   == Len(heap)
        leftpos  == 2 * pos + 1
        rightpos == leftpos + 1
        childpos == IF rightpos < endpos
                       /\ ~ItemLt(heap[leftpos + 1], heap[rightpos + 1])
                    THEN rightpos ELSE leftpos
    IN  IF leftpos < endpos
        THEN siftup([heap EXCEPT ![pos + 1] = heap[childpos + 1]],
                    newitem, startpos, childpos)
        ELSE siftdown(heap, newitem, startpos, pos)

\* heapq.heappush(heap, item)
heappush(heap, item) == siftdown(Append(heap, item), item, 0, Len(heap))

\* heapq.heappop(heap): the item returned
heappop_item(heap) == heap[1]

\* heapq.heappop(heap): the heap left behind
heappop_rest(heap) ==
    LET lastelt == heap[Len(heap)]
        shorter == SubSeq(heap, 1, Len(heap) - 1)
    IN  IF shorter = << >> THEN shorter
        ELSE siftup(shorter, lastelt, 0, 0)

----------------------------------------------------------------------------
(* astar_field_placement: the search, lines 93-134 *)

\* one fielder committed, in the unit of f (ten-thousandths)
G_UNIT == 10000

\* the iteration cap of line 107
MAX_ITERATIONS == 500

\* the zones of a set as a list, in catalog order
SeqOf(S) == SelectSeq(all_zones, LAMBDA z : z \in S)

\* [zone_center(z) for z in state]; heuristic() collects the covered zones in
\* a set, so the order in which the frozenset is walked cannot change its value
Centers(state) == LET zs == SeqOf(state) IN [i \in 1..Len(zs) |-> zone_center(zs[i])]

Entry(g, state, profile) ==
    [f |-> g * G_UNIT + heuristic(Centers(state), profile), g |-> g, state |-> state]

\* the cap with a digit lost
LoopCond_ShortCap(heap, iters) == heap # << >> /\ iters < 50

\* line 107: while open_list and iterations < 500
LoopCond(heap, iters) == heap # << >> /\ iters < MAX_ITERATIONS

\* line 111: len(state) >= n_fielders
IsComplete(state, n) == Cardinality(state) >= n

\* line 112: f < best_f
ImprovesBest(new_f, old_f) == new_f < old_f

\* the closed-set test never fires
AlreadyVisited_Never(seen, state, g) == FALSE

\* line 117: state in visited and visited[state] <= g
AlreadyVisited(seen, state, g) == state \in DOMAIN seen /\ seen[state] <= g

\* only completed states are tracked
SecondaryCandidate_Off(new_f, old_f, state) == FALSE

\* line 132: f < best_f and len(state) > 0
SecondaryCandidate(new_f, old_f, state) == new_f < old_f /\ Cardinality(state) > 0

\* lines 122-130: push one successor per profile zone not in the state
RECURSIVE PushSuccessors(_, _, _, _)
PushSuccessors(heap, top, profile, i) ==
    IF i > Len(profile) THEN heap
    ELSE IF profile[i].zone \in top.state
         THEN PushSuccessors(heap, top, profile, i + 1)
         ELSE PushSuccessors(
                  heappush(heap, Entry(top.g + 1, top.state \cup {profile[i].zone}, profile)),
                  top, profile, i + 1)

Min(a, b) == IF a < b THEN a ELSE b
Max(a, b) == IF a > b THEN a ELSE b

Count(fn, x) == IF x \in DOMAIN fn THEN fn[x] ELSE 0

\* lines 93-104 for the arguments held in delivery_type and n_fielders
StartSearch(profile) ==
    /\ open_list = heappush(<< >>, Entry(0, {}, profile))
    /\ visited = << >>
    /\ best_state = {}
    /\ best_f = Inf
    /\ iterations = 0
    /\ f = 0
    /\ pops = 0
    /\ expansions = << >>
    /\ completed_f = Inf

FielderCounts == (0 - 1) .. MaxFielders

Init ==
    /\ pc = "search"
    /\ delivery_type \in Deliveries
    /\ n_fielders \in FielderCounts
    /\ shot_probs = SelectProfile(delivery_type)
    /\ StartSearch(shot_probs)
    /\ assigned = {}
    /\ result = << >>
    /\ run = 1
    /\ prev = << >>
    /\ hPositions = << >>
    /\ hValue = 0
    /\ hPrev = 0

\* one iteration of the while loop, lines 107-134
Pop ==
    /\ pc = "search"
    /\ LoopCond(open_list, iterations)
    /\ LET top  == heappop_item(open_list)
           rest == heappop_rest(open_list)
       IN  /\ iterations' = iterations + 1
           /\ pops' = pops + 1
           /\ f' = top.f
           /\ IF IsComplete(top.state, n_fielders)
              THEN /\ best_f' = IF ImprovesBest(top.f, best_f) THEN top.f ELSE best_f
                   /\ best_state' = IF ImprovesBest(top.f, best_f) THEN top.state
                                    ELSE best_state
                   /\ completed_f' = Min(completed_f, top.f)
                   /\ open_list' = rest
                   /\ UNCHANGED << visited, expansions >>
              ELSE IF AlreadyVisited(visited, top.state, top.g)
              THEN /\ open_list' = rest
                   /\ UNCHANGED << visited, expansions, best_f, best_state,
                                   completed_f >>
              ELSE /\ visited' = (top.state :> top.g) @@ visited
                   /\ expansions' = (top.state :> Count(expansions, top.state) + 1)
                                    @@ expansions
                   /\ open_list' = PushSuccessors(rest, top, shot_probs, 1)
                   /\ best_f' = IF SecondaryCandidate(top.f, best_f, top.state)
                                THEN top.f ELSE best_f
                   /\ best_state' = IF SecondaryCandidate(top.f, best_f, top.state)
                                    THEN top.state ELSE best_state
                   /\ UNCHANGED completed_f
    /\ UNCHANGED << pc, delivery_type, n_fielders, shot_probs, assigned,
                    result, run, prev >>
    /\ UNCHANGED hVars

----------------------------------------------------------------------------
(* Padding, lines 136-143 *)

\* padding stops one zone early
PadDone_Early(zones, n) == Cardinality(zones) >= n - 1

\* line 140: len(assigned) >= n_fielders
PadDone(zones, n) == Cardinality(zones) >= n

RECURSIVE PadZones(_, _, _)
PadZones(zones, n, i) ==
    IF i > Len(all_zones) \/ PadDone(zones, n) THEN zones
    ELSE PadZones(IF all_zones[i] \notin zones THEN zones \cup {all_zones[i]}
                  ELSE zones, n, i + 1)

\* the loop has ended; fill the best state up from the catalog
Pad ==
    /\ pc = "search"
    /\ ~LoopCond(open_list, iterations)
    /\ assigned' = PadZones(best_state, n_fielders, 1)
    /\ pc' = "build"
    /\ UNCHANGED << delivery_type, n_fielders, shot_probs, result, run, prev >>
    /\ UNCHANGED searchVars
    /\ UNCHANGED hVars

----------------------------------------------------------------------------
(* Building the result, lines 145-179 *)

standard_names ==
    << "Wicket Keeper", "Slip", "Gully", "Point", "Cover", "Mid Off", "Mid On",
       "Mid Wicket", "Square Leg", "Fine Leg", "Long On", "Long Off",
       "Deep Mid Wicket" >>

\* the names "Fielder N" of line 155, N beyond the standard names
FielderN(k) == << "Fielder", k >>

\* line 155, i counted from 0
Label(i) == IF i < Len(standard_names) THEN standard_names[i + 1]
            ELSE FielderN(i + 1)

\* round half to even of num / den, den > 0, num >= 0
RoundDiv(num, den) ==
    LET q == num \div den
        r == num % den
    IN  IF 2 * r > den \/ (2 * r = den /\ q % 2 = 1) THEN q + 1 ELSE q

\* round(x, 3) of a value held in ten-thousandths; the result is in thousandths
Round3(x) == RoundDiv(x, 10)

\* line 153: shot_probs.get(zone, 0.1)
DEFAULT_PROB == 10

\* the threshold itself counts as key
is_key_AtLeast(prob) == prob >= 40

\* line 160: prob > 0.4
is_key(prob) == prob > 40

\* seq[:n]
Slice(seq, n) ==
    IF n >= 0 THEN SubSeq(seq, 1, Min(n, Len(seq)))
    ELSE SubSeq(seq, 1, Max(Len(seq) + n, 0))

\* seq rotated to the left by k places
Rot(seq, k) ==
    IF seq = << >> THEN seq
    ELSE [i \in 1..Len(seq) |-> seq[((i - 1 + k) % Len(seq)) + 1]]

\* list(assigned): a set of strings is walked in an order that depends on the
\* hash seed of the process; these are the orders the model tries
SetOrders(S) == {Rot(SeqOf(S), k) : k \in 0..MaxRot}

\* lines 151-161
Fielder(i, zone, profile) ==
    LET prob == Get(profile, zone, DEFAULT_PROB)
    IN  [name     |-> Label(i),
         zone     |-> zone,
         x        |-> zone_center(zone)[1],
         y        |-> zone_center(zone)[2],
         coverage |-> Round3(prob * Risk(zone)),
         is_key   |-> is_key(prob)]

\* line 164: stable sort, coverage descending; e goes behind every element
\* whose coverage is not lower
InsertByCoverage(sorted, e) ==
    LET k == Cardinality({j \in 1..Len(sorted) : sorted[j].coverage >= e.coverage})
    IN  SubSeq(sorted, 1, k) \o << e >> \o SubSeq(sorted, k + 1, Len(sorted))

RECURSIVE SortByCoverage(_, _, _)
SortByCoverage(list, i, sorted) ==
    IF i > Len(list) THEN sorted
    ELSE SortByCoverage(list, i + 1, InsertByCoverage(sorted, list[i]))

RECURSIVE SumCoverage(_, _)
SumCoverage(list, i) ==
    IF i > Len(list) THEN 0 ELSE list[i].coverage + SumCoverage(list, i + 1)

\* lines 166-168, in tenths of a percent; covered in thousandths, total in
\* ten-thousandths
Efficiency(covered_risk, total_risk) ==
    Min(1000, RoundDiv(covered_risk * 10000, Max(total_risk, 100)))

BuildResult(order) ==
    LET chosen   == Slice(order, n_fielders)
        unsorted == [i \in 1..Len(chosen) |-> Fielder(i - 1, chosen[i], shot_probs)]
        fielders == SortByCoverage(unsorted, 1, << >>)
    IN  [delivery   |-> delivery_type,
         fielders   |-> fielders,
         efficiency |-> Efficiency(SumCoverage(fielders, 1),
                                   UncoveredRisk(shot_probs, {}, 1)),
         h_score    |-> Round3(best_f),
         iterations |-> iterations,
         algorithm  |-> "A* Search",
         g_cost     |-> Len(fielders),
         h_cost     |-> Round3(heuristic(
                            [i \in 1..Len(fielders) |-> zone_center(fielders[i].zone)],
                            shot_probs))]

Build ==
    /\ pc = "build"
    /\ \E order \in SetOrders(assigned) : result' = BuildResult(order)
    /\ pc' = "done"
    /\ UNCHANGED << delivery_type, n_fielders, shot_probs, assigned, run, prev >>
    /\ UNCHANGED searchVars
    /\ UNCHANGED hVars

\* the same call is made once more, in a new process
Rerun ==
    /\ pc = "done"
    /\ run = 1
    /\ run' = 2
    /\ prev' = [result |-> result, best_state |-> best_state,
                best_f |-> best_f, iterations |-> iterations]
    /\ pc' = "search"
    /\ open_list' = heappush(<< >>, Entry(0, {}, shot_probs))
    /\ visited' = << >>
    /\ best_state' = {}
    /\ best_f' = Inf
    /\ iterations' = 0
    /\ f' = 0
    /\ pops' = 0
    /\ expansions' = << >>
    /\ completed_f' = Inf
    /\ assigned' = {}
    /\ result' = << >>
    /\ UNCHANGED << delivery_type, n_fielders, shot_probs >>
    /\ UNCHANGED hVars

Next == Pop \/ Pad \/ Build \/ Rerun

Spec == Init /\ [][Next]_vars

\* The interpreter keeps executing a call that has begun: the loop body runs
\* while the loop condition holds, the code after the loop runs once it does
\* not, and the result is built. (Each fairness action is the control part
\* of the action of the same name.)
LoopStep == pc = "search" /\ LoopCond(open_list, iterations) /\ pops' = pops + 1
ExitStep == pc = "search" /\ ~LoopCond(open_list, iterations) /\ pc' = "build"
BuildStep == pc = "build" /\ pc' = "done"

FairSpec ==
    Spec /\ WF_pops(LoopStep) /\ WF_pc(ExitStep) /\ WF_pc(BuildStep)

----------------------------------------------------------------------------
(* Properties *)

ResultZones == {result.fielders[i].zone : i \in 1..Len(result.fielders)}

Product(profile, z) == Get(profile, z, 0) * Risk(z)

\* C1: for every delivery type of the table and every n_fielders >= 0, the
\* call returns exactly min(n_fielders, 12) assignments, and no two of them
\* have the same zone.
C1_CountAndUniqueZones ==
    (pc = "done" /\ delivery_type \in KnownDeliveries /\ n_fielders >= 0) =>
        /\ Len(result.fielders) = Min(n_fielders, Len(ZONES))
        /\ \A i, j \in 1..Len(result.fielders) :
              i # j => result.fielders[i].zone # result.fielders[j].zone

\* more fielders asked for than the catalog has zones
C1_Witness ==
    /\ pc = "done"
    /\ delivery_type \in KnownDeliveries
    /\ n_fielders > Len(ZONES)
    /\ Len(result.fielders) = Len(ZONES)

HasFielder(zone, key) ==
    \E i \in 1..Len(result.fielders) :
        result.fielders[i].zone = zone /\ result.fielders[i].is_key = key

\* C2 as claimed: ("yorker", 9) returns Fine Leg and Square Leg, both with
\* is_key true.
C2_Original ==
    (pc = "done" /\ delivery_type = "yorker" /\ n_fielders = 9) =>
        HasFielder("Fine Leg", TRUE) /\ HasFielder("Square Leg", TRUE)

\* C2: ("yorker", 9) returns Fine Leg and Square Leg, and is_key is false for
\* both, their probabilities 0.4 and 0.3 not being above 0.4.
C2_YorkerZonesNotKey ==
    (pc = "done" /\ delivery_type = "yorker" /\ n_fielders = 9) =>
        /\ HasFielder("Fine Leg", FALSE) /\ ~HasFielder("Fine Leg", TRUE)
        /\ HasFielder("Square Leg", FALSE) /\ ~HasFielder("Square Leg", TRUE)

C2_Witness ==
    /\ pc = "done" /\ delivery_type = "yorker" /\ n_fielders = 9
    /\ Len(result.fielders) = 9
    /\ {"Fine Leg", "Square Leg"} \subseteq ResultZones

\* C3: the same call made twice gives the same best state, iteration count,
\* best cost and ordered list of assignments, labels included.
C3_Claim ==
    (pc = "done" /\ run = 2) =>
        /\ best_state = prev.best_state
        /\ iterations = prev.iterations
        /\ best_f = prev.best_f
        /\ result.fielders = prev.result.fielders

\* C4: appending a position to the list never raises heuristic(), the profile
\* being fixed.
C4_HeuristicMonotone ==
    pc = "heuristic" => hValue <= hPrev

\* a position was appended and the estimate went down
C4_Witness ==
    /\ pc = "heuristic"
    /\ Len(hPositions) >= 2
    /\ hValue < hPrev

\* C5: a delivery type that is not in the table is searched with the profile
\* of the first six catalog zones, each with its risk as probability, and the
\* call comes to its end with an ordinary result record.
C5_UnknownFallsBack ==
    /\ [](delivery_type \notin KnownDeliveries =>
            /\ shot_probs = << P("Fine Leg", 60), P("Square Leg", 80),
                               P("Mid Wicket", 90), P("Mid On", 70),
                               P("Mid Off", 70), P("Cover", 95) >>
            /\ pc = "done" =>
                  /\ result.delivery = delivery_type
                  /\ result.g_cost = Min(Max(n_fielders, 0), Len(ZONES))
                  /\ result.iterations = iterations
                  /\ ResultZones \subseteq ZoneNames)
    /\ (delivery_type \notin KnownDeliveries /\ pc = "search") ~> (pc = "done")

C5_Witness ==
    /\ pc = "done"
    /\ delivery_type = UnknownDelivery
    /\ n_fielders = 9
    /\ Len(result.fielders) = 9

\* the next pop takes a target-size entry whose f is below that of every
\* target-size entry popped before
C6_NewLowestCompleted ==
    /\ pc = "search"
    /\ LoopCond(open_list, iterations)
    /\ IsComplete(open_list[1].state, n_fielders)
    /\ open_list[1].f < completed_f

\* C6: a popped target-size state whose f is below that of every target-size
\* state popped before becomes the best candidate; so once a target-size
\* state was popped, the best candidate at the end of the loop has the target
\* size.
C6_Claim ==
    /\ [][C6_NewLowestCompleted => best_state' = open_list[1].state]_vars
    /\ []((pc \in {"build", "done"} /\ completed_f < Inf) =>
             IsComplete(best_state, n_fielders))

\* profile zones with some position strictly inside the radius
AnyWithin(positions, profile) ==
    {z \in KeySet(profile) :
        \E i \in 1..Len(positions) :
            DistSq(positions[i], zone_center(z)) < COVER_RADIUS_SQ}

\* z is the first profile zone at the least distance from pos
FirstNearest(pos, profile, k) ==
    \A j \in 1..Len(profile) :
        LET dk == DistSq(pos, zone_center(profile[k].zone))
            dj == DistSq(pos, zone_center(profile[j].zone))
        IN  IF j < k THEN dj > dk ELSE dj >= dk

\* profile zones that are the first nearest zone of some position which is
\* strictly inside the radius
NearestWithin(positions, profile) ==
    {profile[k].zone : k \in
        {k \in 1..Len(profile) :
            \E i \in 1..Len(positions) :
                /\ FirstNearest(positions[i], profile, k)
                /\ DistSq(positions[i], zone_center(profile[k].zone))
                       < COVER_RADIUS_SQ}}

RECURSIVE RiskOutside(_, _)
RiskOutside(profile, zones) ==
    IF profile = << >> THEN 0
    ELSE (IF Head(profile).zone \in zones THEN 0
          ELSE Head(profile).prob * Risk(Head(profile).zone))
         + RiskOutside(Tail(profile), zones)

\* C7 as claimed: a profile zone is left out of the sum whenever any position
\* is strictly within 0.35 of its centre.
C7_Original ==
    pc = "heuristic" =>
        hValue = RiskOutside(shot_probs, AnyWithin(hPositions, shot_probs))

\* C7: a profile zone is left out of the sum exactly when some position has it
\* as its nearest profile zone (the first one at the least distance) and lies
\* strictly within 0.35 of its centre.
C7_NearestZoneCovered ==
    pc = "heuristic" =>
        hValue = RiskOutside(shot_probs, NearestWithin(hPositions, shot_probs))

\* a position is inside the radius of a zone that is not its nearest one, and
\* no position covers that zone
C7_Witness ==
    /\ pc = "heuristic"
    /\ AnyWithin(hPositions, shot_probs) # NearestWithin(hPositions, shot_probs)
    /\ NearestWithin(hPositions, shot_probs) # {}

\* C8: the loop always ends, with the frontier empty or 500 entries popped;
\* the iteration count is the number of pops, never above 500, and it is the
\* count reported.
C8_LoopTerminates ==
    /\ (pc = "search") ~> (pc = "build")
    /\ [](/\ iterations = pops
          /\ iterations <= MAX_ITERATIONS
          /\ pc \in {"build", "done"} =>
                open_list = << >> \/ iterations = MAX_ITERATIONS
          /\ pc = "done" => result.iterations = pops)

C8_Witness ==
    /\ pc = "done"
    /\ open_list = << >>
    /\ result.iterations > 100

\* C9: every frontier entry has a state within the profile's zones, g equal to
\* the size of the state, f = g + heuristic of the state's centres, and a size
\* of at most max(n_fielders, 0); no state is expanded twice in a run.
C9_FrontierInvariant ==
    pc = "search" =>
        /\ \A i \in 1..Len(open_list) :
              LET e == open_list[i]
              IN  /\ e.state \subseteq KeySet(shot_probs)
                  /\ e.g = Cardinality(e.state)
                  /\ e.f = e.g * G_UNIT + heuristic(Centers(e.state), shot_probs)
                  /\ Cardinality(e.state) <= Max(n_fielders, 0)
        /\ \A s \in DOMAIN expansions : expansions[s] <= 1

\* an expanded state waits in the frontier once more
C9_Witness ==
    /\ pc = "search"
    /\ \E i \in 1..Len(open_list) :
          /\ open_list[i].state \in DOMAIN expansions
          /\ open_list[i].state \in DOMAIN visited
          /\ Cardinality(open_list[i].state) >= 2

\* the zones the padding takes: the first k of the catalog outside base
CatalogFill(base, k) ==
    LET rest == SelectSeq(all_zones, LAMBDA z : z \notin base)
    IN  {rest[i] : i \in 1..Min(k, Len(rest))}

====
